---- MODULE Spec2Model ----
(***************************************************************************)
(* The webhookify client Protocol (src/lib/Protocol.js, lines 1-229; the    *)
(* lines after 229 hold an earlier revision of the class): one Protocol    *)
(* instance, the transport handles it creates, its two timers, the frames  *)
(* the hub sends and the reply functions the application holds.            *)
(*                                                                         *)
(* Environment (the ws transport, Node timers, the application):           *)
(*  - a handle is CONNECTING, OPEN, CLOSING or CLOSED; its "close" event   *)
(*    is delivered when it becomes CLOSED; frames and pings are delivered  *)
(*    by OPEN handles only;                                                *)
(*  - "unexpected-response" is delivered at most once, to a CONNECTING     *)
(*    handle, which then never opens (the listener owns the response);     *)
(*  - the application has a listener for every event kind, calls connect(),*)
(*    sendReply and sendError at any time and calls a reply function it    *)
(*    was given at any time;                                               *)
(*  - "transmits" means: hands the encoded frame to send() of the handle   *)
(*    held in _socket.                                                     *)
(*                                                                         *)
(* Specifications: Spec (any options), FairSpec (Spec with fair timers),   *)
(* FairDefaultSpec and RecordedSpec (default options; the latter keeps two *)
(* more histories), CodecSpec (encodeMessage and the decoder of            *)
(* processMessage on the text of the wire).                                *)
(***************************************************************************)
EXTENDS Integers, Sequences, FiniteSets, TLC

\* ---------------------------------------------------------------- bounds
MaxHandles == 3

Handles == 1..MaxHandles

\* ---------------------------------------------------------------- values
\* JavaScript values: undefined, null, and single-key objects {k: v}.
Undefined == [t |-> "undefined", k |-> "", v |-> ""]
Null == [t |-> "null", k |-> "", v |-> ""]
Obj(k, v) == [t |-> "object", k |-> k, v |-> v]

\* A string-typed field that is undefined (absent from the parsed frame).
undef == "<undefined>"

\* Text of a payload field: absent (JS undefined), the empty string, text that
\* is no JSON, or the JSON text of a value.
AbsentText == [kind |-> "absent", val |-> Undefined]
EmptyText == [kind |-> "empty", val |-> Undefined]
GarbageText == [kind |-> "garbage", val |-> Undefined]
JsonText(v) == [kind |-> "json", val |-> v]

\* JSON.parse: the value, or a SyntaxError (ok = FALSE).
JSONparse(text) ==
  IF text.kind = "json" THEN [ok |-> TRUE, val |-> text.val]
  ELSE [ok |-> FALSE, val |-> Undefined]

\* JSON.stringify: undefined stays undefined (no text at all).
JSONstringify(v) == IF v = Undefined THEN AbsentText ELSE JsonText(v)

\* querystring.stringify of one field: undefined is written as the empty string.
QsField(text) == IF text.kind = "absent" THEN EmptyText ELSE text

\* crypto.privateDecrypt of a base64 challenge: the plaintext, or it throws.
\* Buffer.from(undefined) throws as well (an object without a challenge key).
DecryptOk(c) == c \in {"c1", "c2"}
Decrypt(c) == IF c = "c1" THEN "s1" ELSE "s2"

Ids == {"i1", "i2"}

\* ---------------------------------------------------------------- frames
\* An inbound frame as querystring.parse returns it: type, id, plugin and the
\* raw payload text, each possibly undefined.
Frame(type, id, plugin, payload) ==
  [type |-> type, id |-> id, plugin |-> plugin, payload |-> payload]

NoFrame == Frame("-", "-", "-", AbsentText)

PushFetchFrames ==
  { Frame("push", "i1", "p1", JsonText(Obj("x", "1"))),
    Frame("push", "i2", "p2", JsonText(Null)),
    Frame("fetch", "i1", "p1", JsonText(Obj("x", "1"))),
    Frame("fetch", "i2", "p2", JsonText(Null)) }

ChallengeFrames ==
  { Frame("challenge", "i1", undef, JsonText(Obj("challenge", "c1"))),
    Frame("challenge", "i2", undef, JsonText(Obj("challenge", "c2"))),
    Frame("challenge", "i1", undef, JsonText(Obj("challenge", "bad"))),
    Frame("challenge", "i2", undef, JsonText(Obj("x", "1"))),
    Frame("challenge", "i1", undef, JsonText(Null)) }

DefectiveFrames ==
  { Frame(undef, "i1", "p1", JsonText(Null)),
    Frame("reply", "i1", "p1", JsonText(Null)),
    Frame("push", undef, "p1", JsonText(Null)),
    Frame("fetch", "i1", "p1", AbsentText),
    Frame("fetch", "i2", "p1", GarbageText),
    Frame("challenge", "i1", undef, EmptyText) }

Frames == PushFetchFrames \cup ChallengeFrames \cup DefectiveFrames

\* ---------------------------------------------------------------- events
\* An event handed to the application's listeners.
Ev(ev, plugin, payload, id, info) ==
  [ev |-> ev, plugin |-> plugin, payload |-> payload, id |-> id, info |-> info]

Connected == Ev("connected", "-", Undefined, "-", "-")
Disconnected(info) == Ev("disconnected", "-", Undefined, "-", info)
ErrorEv(info) == Ev("error", "-", Undefined, "-", info)
PushEv(plugin, payload) == Ev("push", plugin, payload, "-", "-")
\* The fetch event carries the reply function closed over id.
FetchEv(plugin, payload, id) == Ev("fetch", plugin, payload, id, "-")

\* ---------------------------------------------------------------- state
VARIABLES
  socket,             \* this._socket: 0 (null) or the handle held
  readyState,         \* readyState of every handle; "NONE" = not created yet
  unexpected,         \* handles not yet closed whose once("unexpected-response")
                      \* listener ran
  reconnectTimeout,   \* this._reconnectTimeout != null
  pingTimeout,        \* this._pingTimeout != null
  reconnect,          \* this._options.reconnect
  ignoreErrors,       \* this._options.ignoreErrors
  configured,         \* options.reconnect as merged by the constructor
  disconnectEmitted,  \* this._disconnectEmitted
  pending,            \* ids whose reply function the application holds
  emitted,            \* events emitted by the last step, in order
  sent,               \* frames handed to send() by the last step, in order
  fault,              \* "throw": the last step threw; "reject": its promise rejected
  last,               \* the last step: operation, handle, inputs, handle created
  discSince,          \* a disconnected event was emitted since the last
                      \* connected event
  failedH,            \* handles on which a challenge failed to decrypt, kept
                      \* until the step after their close
  reconnectTimers,    \* reconnect callbacks scheduled with setTimeout and not
                      \* yet run
  established,        \* a connected event was emitted at some time
  recording,          \* the two histories below are kept (fixed at construction)
  origin,             \* per id: the handle that delivered the latest fetch with
                      \* that id (0: none)
  stale,              \* the handle a liveness expiry found held and open with
                      \* reconnect enabled, until the next handle is created
  codec               \* a message on its way through encodeMessage and the
                      \* decoder: the input, its text, what was decoded

vars ==
  <<socket, readyState, unexpected, reconnectTimeout, pingTimeout, reconnect,
    ignoreErrors, configured, disconnectEmitted, pending, emitted, sent, fault,
    last, discSince, failedH, reconnectTimers, established, recording, origin,
    stale, codec>>

Live == {"CONNECTING", "OPEN", "CLOSING"}
Created(rs) == {h \in Handles : rs[h] # "NONE"}
NotClosed(rs) == {h \in Handles : rs[h] \in Live}

\* ---------------------------------------------------------------- codec
\* encodeMessage: the fields querystring.stringify writes.
EncodeMessage(type, id, payload) ==
  [type |-> type, id |-> id, payload |-> QsField(JSONstringify(payload))]

\* ---------------------------------------------------------------- sending
\* this._socket.send(message, {}, cb) inside the Promise executor: with
\* _socket null the executor throws a TypeError and the promise rejects.
SendOn(s, message) ==
  IF s = 0
    THEN [sent |-> <<>>, fault |-> "reject"]
    ELSE [sent |-> <<[h |-> s, frame |-> message]>>, fault |-> "none"]

SendReply(s, id, payload) == SendOn(s, EncodeMessage("reply", id, payload))

SendError(s, id, message) ==
  SendOn(s, EncodeMessage("error", id, Obj("message", message)))

\* Mutant: every reply function answers the fetch with id "i1" (the id is read
\* from a shared variable, not captured per fetch).
ReplyFunctionSharedId(s, o, id, err, response) == SendReply(s, "i1", response)

\* Mutant: the reply function keeps the handle that was held when the fetch
\* arrived and sends on it.
ReplyFunctionOnOrigin(s, o, id, err, response) == SendReply(o, id, response)

\* The function _generateReplyFunction(id) returns, called with (err, response)
\* while s is held; o is the handle that delivered the fetch. It captures the
\* id and the Protocol only.
ReplyFunction(s, o, id, err, response) == SendReply(s, id, response)

\* ---------------------------------------------------------------- timers
\* _reconnect: arm the reconnect timer unless one is pending.
Reconnect(t) == IF t THEN t ELSE TRUE

\* if (this._options.reconnect) this._reconnect();
ReconnectIfEnabled(opt, t) == IF opt THEN Reconnect(t) ELSE t

\* Mutant: _reconnect schedules a callback whether or not one is pending.
ReconnectArmsAlways(t) == TRUE

\* _reconnect reaches setTimeout: no reconnect timer is pending.
ReconnectArms(t) == ~t

\* The callbacks scheduled after if (this._options.reconnect) this._reconnect().
Scheduled(opt, t, n) == IF opt /\ ReconnectArms(t) THEN n + 1 ELSE n

\* Mutant: disconnected is emitted whatever the flag says.
DisconnectAlways(flag, info) == <<Disconnected(info)>>

\* if (!this._disconnectEmitted) { ...; this.emit("disconnected", ...) }
DisconnectOnce(flag, info) == IF ~flag THEN <<Disconnected(info)>> ELSE <<>>

\* Mutant: the reconnect is requested only together with the disconnected
\* event, inside the flag's guard.
DisconnectHandlerInsideGuard(flag, opt, t, n, info) ==
  IF ~flag
    THEN [emitted |-> <<Disconnected(info)>>, timeout |-> ReconnectIfEnabled(opt, t),
          timers |-> Scheduled(opt, t, n)]
    ELSE [emitted |-> <<>>, timeout |-> t, timers |-> n]

\* The body shared by the close and unexpected-response listeners: emit
\* disconnected unless the flag is set, then reconnect if enabled.
DisconnectHandler(flag, opt, t, n, info) ==
  [emitted |-> DisconnectOnce(flag, info), timeout |-> ReconnectIfEnabled(opt, t),
   timers |-> Scheduled(opt, t, n)]

\* ---------------------------------------------------------------- connect
\* WebSocket.close(): a handle that is not closed starts closing.
CloseRequested(rs, h) == [rs EXCEPT ![h] = "CLOSING"]

NewHandle(rs) == Cardinality(Created(rs)) + 1

\* Mutant: connect() closes the live handle and opens the next one at once,
\* without waiting for the close event.
ConnectWithoutWaiting(s, rs) ==
  LET closing == IF s # 0 /\ rs[s] # "CLOSED" THEN CloseRequested(rs, s) ELSE rs IN
  [socket |-> NewHandle(rs),
   readyState |-> [closing EXCEPT ![NewHandle(rs)] = "CONNECTING"],
   born |-> NewHandle(rs)]

\* Mutant: connect() cancels a pending reconnect timer as well.
ConnectTimersClearsBoth(ping, rec, n) ==
  [pingTimeout |-> FALSE, reconnectTimeout |-> FALSE, reconnectTimers |-> 0]

\* The timers after the first lines of connect(): the liveness timer is
\* cleared, the reconnect timer and its scheduled callbacks are not touched.
ConnectTimers(ping, rec, n) ==
  [pingTimeout |-> FALSE, reconnectTimeout |-> rec, reconnectTimers |-> n]

\* Mutant: connect() forgets the live handle it asked to close.
ConnectDropsLive(s, rs) ==
  IF s # 0 /\ rs[s] # "CLOSED"
    THEN [socket |-> 0, readyState |-> CloseRequested(rs, s), born |-> 0]
    ELSE [socket |-> NewHandle(rs),
          readyState |-> [rs EXCEPT ![NewHandle(rs)] = "CONNECTING"],
          born |-> NewHandle(rs)]

\* connect(), after the liveness timer was cleared: close the live handle and
\* return, or drop the closed one and open a new handle.
Connect(s, rs) ==
  IF s # 0 /\ rs[s] # "CLOSED"
    THEN [socket |-> s, readyState |-> CloseRequested(rs, s), born |-> 0]
    ELSE [socket |-> NewHandle(rs),
          readyState |-> [rs EXCEPT ![NewHandle(rs)] = "CONNECTING"],
          born |-> NewHandle(rs)]

\* connect() can run: it opens no handle beyond the model's bound.
CanConnect == (socket # 0 /\ readyState[socket] # "CLOSED")
              \/ Cardinality(Created(readyState)) < MaxHandles

\* ---------------------------------------------------------------- dispatch
\* What a handler leaves behind: events, frames, fault and the fields it may write.
Effect(ev, out, flt, s, rs, opt, pend) ==
  [emitted |-> ev, sent |-> out, fault |-> flt, socket |-> s,
   readyState |-> rs, reconnect |-> opt, pending |-> pend]

\* Mutant: the reply carries the challenge as received, not its plaintext.
ChallengeResponseEcho(payload) == Obj("response", payload.v)

\* The reply to a challenge that decrypts: { response }.
ChallengeResponse(payload) == Obj("response", Decrypt(payload.v))

\* Mutant: the catch block leaves the reconnect option as it is.
FailChallengeKeepsReconnect(s, rs, opt, pend) ==
  IF s # 0
    THEN Effect(<<ErrorEv("decrypt")>>, <<>>, "none", 0,
                IF rs[s] # "CLOSED" THEN CloseRequested(rs, s) ELSE rs,
                opt, pend)
    ELSE Effect(<<ErrorEv("decrypt")>>, <<>>, "none", s, rs, opt, pend)

\* The catch block of _handleChallenge: emit "error"; with a handle held,
\* disable reconnect, close the handle unless closed, and drop it.
FailChallenge(s, rs, opt, pend) ==
  IF s # 0
    THEN Effect(<<ErrorEv("decrypt")>>, <<>>, "none", 0,
                IF rs[s] # "CLOSED" THEN CloseRequested(rs, s) ELSE rs,
                FALSE, pend)
    ELSE Effect(<<ErrorEv("decrypt")>>, <<>>, "none", s, rs, opt, pend)

\* _handleChallenge(id, payload). payload.challenge of null throws before the
\* try block; a missing challenge makes Buffer.from throw inside it.
HandleChallenge(s, rs, opt, pend, id, payload) ==
  IF payload.t # "object"
    THEN Effect(<<>>, <<>>, "throw", s, rs, opt, pend)
  ELSE IF payload.k = "challenge" /\ DecryptOk(payload.v)
    THEN LET r == SendReply(s, id, ChallengeResponse(payload))
         IN Effect(<<>>, r.sent, r.fault, s, rs, opt, pend)
  ELSE FailChallenge(s, rs, opt, pend)

\* Mutant: a frame without an id is not rejected.
IncompleteIgnoresId(f) == f.type = undef \/ f.payload.kind = "absent"

\* type, id or payload is missing from the parsed frame.
Incomplete(f) == f.type = undef \/ f.id = undef \/ f.payload.kind = "absent"

\* The message types the client expects.
ExpectedType(type) == type \in {"push", "fetch", "challenge"}

\* Mutant: the push case falls through into the fetch case.
DispatchFallsThrough(s, rs, opt, pend, type, id, plugin, payload) ==
  CASE type = "challenge" -> HandleChallenge(s, rs, opt, pend, id, payload)
    [] type = "push" ->
         Effect(<<PushEv(plugin, payload), FetchEv(plugin, payload, id)>>, <<>>,
                "none", s, rs, opt, pend \cup {id})
    [] type = "fetch" ->
         Effect(<<FetchEv(plugin, payload, id)>>, <<>>, "none", s, rs, opt,
                pend \cup {id})

\* The switch of processMessage over the type of a decoded frame.
Dispatch(s, rs, opt, pend, type, id, plugin, payload) ==
  CASE type = "challenge" -> HandleChallenge(s, rs, opt, pend, id, payload)
    [] type = "push" ->
         Effect(<<PushEv(plugin, payload)>>, <<>>, "none", s, rs, opt, pend)
    [] type = "fetch" ->
         Effect(<<FetchEv(plugin, payload, id)>>, <<>>, "none", s, rs, opt,
                pend \cup {id})

\* processMessage(message), message parsed into frame f.
ProcessMessage(s, rs, opt, pend, f) ==
  IF Incomplete(f)
    THEN Effect(<<>>, <<>>, "none", s, rs, opt, pend)
  ELSE IF ~ExpectedType(f.type)
    THEN Effect(<<>>, <<>>, "none", s, rs, opt, pend)
  ELSE IF ~JSONparse(f.payload).ok
    THEN Effect(<<>>, <<>>, "none", s, rs, opt, pend)
  ELSE Dispatch(s, rs, opt, pend, f.type, f.id, f.plugin, JSONparse(f.payload).val)

\* ---------------------------------------------------------------- wire
\* The text on the wire, character by character. A string is a sequence of
\* one-character strings; NoText stands for JS undefined where a string is
\* expected.
NoText == <<"<undefined>">>

\* The characters querystring.escape writes as %XX (those the model uses).
PercentCode ==
  [c \in {"&", "=", "%", "+", " ", "\"", "{", "}", ":"} |->
     CASE c = "&" -> <<"%", "2", "6">>
       [] c = "=" -> <<"%", "3", "D">>
       [] c = "%" -> <<"%", "2", "5">>
       [] c = "+" -> <<"%", "2", "B">>
       [] c = " " -> <<"%", "2", "0">>
       [] c = "\"" -> <<"%", "2", "2">>
       [] c = "{" -> <<"%", "7", "B">>
       [] c = "}" -> <<"%", "7", "D">>
       [] c = ":" -> <<"%", "3", "A">>]

Reserved == DOMAIN PercentCode

\* Mutant: the fields are written as they are, without percent-encoding.
QsEscapeNothing(s) == s

RECURSIVE QsEscape(_)
\* querystring.escape: every reserved character becomes its %XX code.
QsEscape(s) ==
  IF s = <<>> THEN <<>>
  ELSE (IF s[1] \in Reserved THEN PercentCode[s[1]] ELSE <<s[1]>>)
       \o QsEscape(Tail(s))

RECURSIVE QsUnescape(_)
\* querystring.unescape as querystring.parse applies it: "+" is a space, a
\* %XX code is its character, anything else stays.
QsUnescape(s) ==
  IF s = <<>> THEN <<>>
  ELSE IF s[1] = "+" THEN <<" ">> \o QsUnescape(Tail(s))
  ELSE IF Len(s) >= 3 /\ \E c \in Reserved : PercentCode[c] = SubSeq(s, 1, 3)
    THEN <<CHOOSE c \in Reserved : PercentCode[c] = SubSeq(s, 1, 3)>>
         \o QsUnescape(SubSeq(s, 4, Len(s)))
  ELSE <<s[1]>> \o QsUnescape(Tail(s))

\* The position of the first sep in s, or 0.
FirstIndex(s, sep) ==
  IF \E k \in 1..Len(s) : s[k] = sep
    THEN CHOOSE k \in 1..Len(s) : s[k] = sep /\ \A j \in 1..(k - 1) : s[j] # sep
    ELSE 0

RECURSIVE Split(_, _)
\* s cut at every sep.
Split(s, sep) ==
  IF FirstIndex(s, sep) = 0 THEN <<s>>
  ELSE <<SubSeq(s, 1, FirstIndex(s, sep) - 1)>>
       \o Split(SubSeq(s, FirstIndex(s, sep) + 1, Len(s)), sep)

\* One key=value pair of a query string, cut at its first "=".
PairKey(p) ==
  QsUnescape(IF FirstIndex(p, "=") = 0 THEN p
             ELSE SubSeq(p, 1, FirstIndex(p, "=") - 1))
PairValue(p) ==
  QsUnescape(IF FirstIndex(p, "=") = 0 THEN <<>>
             ELSE SubSeq(p, FirstIndex(p, "=") + 1, Len(p)))

\* querystring.parse(wire)[key]: the value of the pair with that key, or
\* undefined. (The encoder writes no key twice.)
QsParse(wire, key) ==
  LET pairs == IF wire = <<>> THEN <<>> ELSE Split(wire, "&")
      hits == {k \in 1..Len(pairs) : pairs[k] # <<>> /\ PairKey(pairs[k]) = key}
  IN IF hits = {} THEN NoText
     ELSE PairValue(pairs[CHOOSE k \in hits : \A j \in hits : k <= j])

\* querystring.stringify of one field: key=escaped value; undefined is written
\* as the empty string.
QsPair(key, value) ==
  key \o <<"=">> \o (IF value = NoText THEN <<>> ELSE QsEscape(value))

KeyType == <<"t", "y", "p", "e">>
KeyId == <<"i", "d">>
KeyPayload == <<"p", "a", "y", "l", "o", "a", "d">>

\* querystring.stringify({type, id, payload}).
QsStringify(type, id, payload) ==
  QsPair(KeyType, type) \o <<"&">> \o QsPair(KeyId, id) \o <<"&">>
  \o QsPair(KeyPayload, payload)

\* JSON values whose strings are character sequences: null, a string, an
\* object with one string member; JUndefined is JS undefined.
JUndefined == [t |-> "undefined", k |-> <<>>, v |-> <<>>]
JNull == [t |-> "null", k |-> <<>>, v |-> <<>>]
JText(s) == [t |-> "string", k |-> <<>>, v |-> s]
JObj(k, v) == [t |-> "object", k |-> k, v |-> v]

Quoted(s) == <<"\"">> \o s \o <<"\"">>

\* JSON.stringify on these values (their strings hold no quote or backslash).
JsonWrite(v) ==
  CASE v.t = "undefined" -> NoText
    [] v.t = "null" -> <<"n", "u", "l", "l">>
    [] v.t = "string" -> Quoted(v.v)
    [] v.t = "object" -> <<"{">> \o Quoted(v.k) \o <<":">> \o Quoted(v.v) \o <<"}">>

\* s is a JSON string literal without escapes.
IsQuoted(s) ==
  /\ Len(s) >= 2 /\ s[1] = "\"" /\ s[Len(s)] = "\""
  /\ \A k \in 2..(Len(s) - 1) : s[k] # "\""
Unquoted(s) == SubSeq(s, 2, Len(s) - 1)

\* s is {"k":"v"}: the member's name ends at the second quote.
IsMember(s) ==
  /\ Len(s) >= 7 /\ s[1] = "{" /\ s[Len(s)] = "}" /\ s[2] = "\""
  /\ LET inner == SubSeq(s, 2, Len(s) - 1)
         close == FirstIndex(Tail(inner), "\"") + 1
     IN /\ close > 1 /\ close + 1 <= Len(inner)
        /\ inner[close + 1] = ":"
        /\ IsQuoted(SubSeq(inner, close + 2, Len(inner)))
MemberName(s) ==
  LET inner == SubSeq(s, 2, Len(s) - 1)
  IN SubSeq(inner, 2, FirstIndex(Tail(inner), "\""))
MemberValue(s) ==
  LET inner == SubSeq(s, 2, Len(s) - 1)
      close == FirstIndex(Tail(inner), "\"") + 1
  IN Unquoted(SubSeq(inner, close + 2, Len(inner)))

\* JSON.parse on text: the value, or a SyntaxError (ok = FALSE).
JsonRead(s) ==
  IF s = <<"n", "u", "l", "l">> THEN [ok |-> TRUE, val |-> JNull]
  ELSE IF IsQuoted(s) THEN [ok |-> TRUE, val |-> JText(Unquoted(s))]
  ELSE IF IsMember(s) THEN [ok |-> TRUE, val |-> JObj(MemberName(s), MemberValue(s))]
  ELSE [ok |-> FALSE, val |-> JUndefined]

\* The message types, as text.
TypeChars ==
  [a \in {"challenge", "push", "fetch", "reply", "error"} |->
     CASE a = "challenge" -> <<"c", "h", "a", "l", "l", "e", "n", "g", "e">>
       [] a = "push" -> <<"p", "u", "s", "h">>
       [] a = "fetch" -> <<"f", "e", "t", "c", "h">>
       [] a = "reply" -> <<"r", "e", "p", "l", "y">>
       [] a = "error" -> <<"e", "r", "r", "o", "r">>]

\* encodeMessage(type, id, payload) as the text it returns.
EncodeWire(type, id, payload) == QsStringify(type, id, JsonWrite(payload))

\* What the decoder hands on: nothing (the frame is dropped) or the message.
Absent == [type |-> NoText, id |-> NoText, payload |-> JUndefined]
Message(type, id, payload) == [type |-> type, id |-> id, payload |-> payload]

\* ["push", "fetch", "challenge"].includes(type), on text.
ExpectedWireType(type) ==
  \E a \in DOMAIN TypeChars : TypeChars[a] = type /\ ExpectedType(a)

\* The decoding part of processMessage: parse the query string, require type,
\* id and payload, require an expected type, parse the payload.
DecodeWire(wire) ==
  LET type == QsParse(wire, KeyType)
      id == QsParse(wire, KeyId)
      payloadRaw == QsParse(wire, KeyPayload)
  IN IF type = NoText \/ id = NoText \/ payloadRaw = NoText THEN Absent
     ELSE IF ~ExpectedWireType(type) THEN Absent
     ELSE IF ~JsonRead(payloadRaw).ok THEN Absent
     ELSE Message(type, id, JsonRead(payloadRaw).val)

\* ---------------------------------------------------------------- steps
\* The record of a step: operation, handle, inputs, and the handle it created.
Last(op, h, f, id, err, resp, born) ==
  [op |-> op, h |-> h, frame |-> f, id |-> id, err |-> err, resp |-> resp,
   born |-> born]

\* A disconnected event was emitted since the last connected event, after evs.
SinceConnected(d, evs) ==
  IF \E k \in 1..Len(evs) : evs[k].ev = "connected" THEN FALSE
  ELSE IF \E k \in 1..Len(evs) : evs[k].ev = "disconnected" THEN TRUE
  ELSE d

\* The handles of failedH that were not closed before this step, and h when
\* this step's events report a failed decryption on it.
Failed(evs, h) ==
  {x \in failedH : readyState[x] # "CLOSED"}
  \cup (IF \E k \in 1..Len(evs) : evs[k] = ErrorEv("decrypt") THEN {h} ELSE {})

\* A connected event was emitted at some time, after evs.
Established(e, evs) == e \/ \E k \in 1..Len(evs) : evs[k].ev = "connected"

\* The handle that delivered the latest fetch of every id, after handle h
\* dispatched evs.
Origin(o, evs, h) ==
  IF ~recording THEN o
  ELSE [i \in Ids |->
          IF \E k \in 1..Len(evs) : evs[k].ev = "fetch" /\ evs[k].id = i
            THEN h ELSE o[i]]

\* The handle the liveness timer's expiry found held and open with reconnect
\* enabled, forgotten once a handle is created.
Stale(st, lst) ==
  IF ~recording THEN st
  ELSE IF lst.born # 0 THEN 0
  ELSE IF lst.op = "pingTimeout" /\ reconnect /\ socket # 0
          /\ readyState[socket] = "OPEN" THEN socket
  ELSE st

\* What a step leaves for the next state to show: its events, its frames, its
\* fault, its record, and the two histories.
Outputs(evs, out, flt, lst) ==
  /\ emitted' = evs
  /\ sent' = out
  /\ fault' = flt
  /\ last' = lst
  /\ discSince' = SinceConnected(discSince, evs)
  /\ failedH' = Failed(evs, lst.h)
  /\ established' = Established(established, evs)
  /\ recording' = recording
  /\ origin' = Origin(origin, evs, lst.h)
  /\ stale' = Stale(stale, lst)

\* What the application passes to a reply function: (err, response).
ReplyCalls ==
  { <<"null", Obj("x", "1")>>, <<"boom", Undefined>>, <<"boom", Obj("x", "1")>> }

\* A message before it is encoded, once encoded, once decoded again.
CodecInput(type, id, payload) ==
  [stage |-> "input", type |-> type, id |-> id, payload |-> payload,
   wire |-> NoText, decoded |-> Absent]

CodecIdle == CodecInput(NoText, NoText, JUndefined)

\* The Protocol as its constructor leaves it.
Constructed ==
  /\ socket = 0
  /\ readyState = [h \in Handles |-> "NONE"]
  /\ unexpected = {}
  /\ reconnectTimeout = FALSE
  /\ pingTimeout = FALSE
  /\ reconnect \in BOOLEAN
  /\ ignoreErrors \in BOOLEAN
  /\ configured = reconnect
  /\ disconnectEmitted = FALSE
  /\ pending = {}
  /\ emitted = <<>>
  /\ sent = <<>>
  /\ fault = "none"
  /\ last = Last("init", 0, NoFrame, "-", "-", Undefined, 0)
  /\ discSince = FALSE
  /\ failedH = {}
  /\ reconnectTimers = 0
  /\ established = FALSE
  /\ origin = [i \in Ids |-> 0]
  /\ stale = 0

Init == Constructed /\ recording = FALSE /\ codec = CodecIdle

\* The Protocol constructed with the default options (reconnect: true,
\* ignoreErrors: true).
DefaultInit ==
  /\ Constructed /\ reconnect = TRUE /\ ignoreErrors = TRUE
  /\ recording = FALSE /\ codec = CodecIdle

\* The same, with the histories origin and stale kept.
RecordedInit ==
  /\ Constructed /\ reconnect = TRUE /\ ignoreErrors = TRUE
  /\ recording = TRUE /\ codec = CodecIdle

\* The application calls connect().
AppConnect ==
  /\ CanConnect
  /\ LET c == Connect(socket, readyState)
         t == ConnectTimers(pingTimeout, reconnectTimeout, reconnectTimers) IN
       /\ pingTimeout' = t.pingTimeout
       /\ reconnectTimeout' = t.reconnectTimeout
       /\ reconnectTimers' = t.reconnectTimers
       /\ socket' = c.socket
       /\ readyState' = c.readyState
       /\ Outputs(<<>>, <<>>, "none",
                  Last("connect", 0, NoFrame, "-", "-", Undefined, c.born))
  /\ UNCHANGED <<unexpected, reconnect, ignoreErrors, disconnectEmitted, pending,
                 configured, codec>>

\* The reconnect timer expires: clear it and call connect().
ReconnectTimerFires ==
  /\ reconnectTimers > 0
  /\ CanConnect
  /\ LET c == Connect(socket, readyState)
         t == ConnectTimers(pingTimeout, FALSE, reconnectTimers - 1) IN
       /\ pingTimeout' = t.pingTimeout
       /\ reconnectTimeout' = t.reconnectTimeout
       /\ reconnectTimers' = t.reconnectTimers
       /\ socket' = c.socket
       /\ readyState' = c.readyState
       /\ Outputs(<<>>, <<>>, "none",
                  Last("reconnectTimer", 0, NoFrame, "-", "-", Undefined, c.born))
  /\ UNCHANGED <<unexpected, reconnect, ignoreErrors, disconnectEmitted,
                 pending, configured, codec>>

\* Handle h opens.
OnOpen(h) ==
  /\ readyState[h] = "CONNECTING"
  /\ h \notin unexpected
  /\ readyState' = [readyState EXCEPT ![h] = "OPEN"]
  /\ disconnectEmitted' = FALSE
  /\ Outputs(<<Connected>>, <<>>, "none",
             Last("open", h, NoFrame, "-", "-", Undefined, 0))
  /\ UNCHANGED <<socket, unexpected, reconnectTimeout, pingTimeout, reconnect,
                 ignoreErrors, pending, configured, codec,
                 reconnectTimers>>

\* Handle h becomes closed and its once("close") listener runs.
OnClose(h) ==
  /\ readyState[h] \in Live
  /\ readyState' = [readyState EXCEPT ![h] = "CLOSED"]
  /\ unexpected' = unexpected \ {h}
  /\ disconnectEmitted' = TRUE
  /\ LET d == DisconnectHandler(disconnectEmitted, reconnect, reconnectTimeout,
                                reconnectTimers, "close") IN
       /\ reconnectTimeout' = d.timeout
       /\ reconnectTimers' = d.timers
       /\ Outputs(d.emitted, <<>>, "none",
                  Last("close", h, NoFrame, "-", "-", Undefined, 0))
  /\ UNCHANGED <<socket, pingTimeout, reconnect, ignoreErrors, pending, configured, codec>>

\* The server answers the upgrade of handle h with a non-101 response.
OnUnexpectedResponse(h) ==
  /\ readyState[h] = "CONNECTING"
  /\ h \notin unexpected
  /\ unexpected' = unexpected \cup {h}
  /\ disconnectEmitted' = TRUE
  /\ LET d == DisconnectHandler(disconnectEmitted, reconnect, reconnectTimeout,
                                reconnectTimers, "unexpected-response") IN
       /\ reconnectTimeout' = d.timeout
       /\ reconnectTimers' = d.timers
       /\ Outputs(d.emitted, <<>>, "none",
                  Last("unexpected-response", h, NoFrame, "-", "-", Undefined, 0))
  /\ UNCHANGED <<socket, readyState, pingTimeout, reconnect, ignoreErrors,
                 pending, configured, codec>>

\* Mutant: the error is passed on whatever the option says.
ErrorHandlerAlways(ignore) == <<ErrorEv("socket")>>

\* if (!this._options.ignoreErrors) this.emit("error", err);
ErrorHandler(ignore) == IF ~ignore THEN <<ErrorEv("socket")>> ELSE <<>>

\* Handle h reports a transport error.
OnError(h) ==
  /\ readyState[h] \in Live
  /\ Outputs(ErrorHandler(ignoreErrors), <<>>, "none",
             Last("error", h, NoFrame, "-", "-", Undefined, 0))
  /\ UNCHANGED <<socket, readyState, unexpected, reconnectTimeout, pingTimeout,
                 reconnect, ignoreErrors, disconnectEmitted, pending, configured, codec,
                 reconnectTimers>>

\* Handle h delivers frame f.
OnMessage(h, f) ==
  /\ readyState[h] = "OPEN"
  /\ LET e == ProcessMessage(socket, readyState, reconnect, pending, f) IN
       /\ socket' = e.socket
       /\ readyState' = e.readyState
       /\ reconnect' = e.reconnect
       /\ pending' = e.pending
       /\ Outputs(e.emitted, e.sent, e.fault,
                  Last("message", h, f, "-", "-", Undefined, 0))
  /\ UNCHANGED <<unexpected, reconnectTimeout, pingTimeout, ignoreErrors,
                 disconnectEmitted, configured, codec,
                 reconnectTimers>>

\* Handle h receives a ping: the liveness timer is (re)armed.
OnPing(h) ==
  /\ readyState[h] = "OPEN"
  /\ pingTimeout' = TRUE
  /\ Outputs(<<>>, <<>>, "none", Last("ping", h, NoFrame, "-", "-", Undefined, 0))
  /\ UNCHANGED <<socket, readyState, unexpected, reconnectTimeout, reconnect,
                 ignoreErrors, disconnectEmitted, pending, configured, codec,
                 reconnectTimers>>

\* The liveness timer expires.
PingTimeoutFires ==
  /\ pingTimeout
  /\ pingTimeout' = FALSE
  /\ reconnectTimeout' = ReconnectIfEnabled(reconnect, reconnectTimeout)
  /\ reconnectTimers' = Scheduled(reconnect, reconnectTimeout, reconnectTimers)
  /\ Outputs(<<Disconnected("Ping timeout")>>, <<>>, "none",
             Last("pingTimeout", 0, NoFrame, "-", "-", Undefined, 0))
  /\ UNCHANGED <<socket, readyState, unexpected, reconnect, ignoreErrors,
                 disconnectEmitted, pending, configured, codec>>

\* The application calls the reply function of fetch i with (err, response).
AppReply(i, call) ==
  /\ i \in pending
  /\ LET r == ReplyFunction(socket, origin[i], i, call[1], call[2]) IN
       Outputs(<<>>, r.sent, r.fault,
               Last("reply", 0, NoFrame, i, call[1], call[2], 0))
  /\ UNCHANGED <<socket, readyState, unexpected, reconnectTimeout, pingTimeout,
                 reconnect, ignoreErrors, disconnectEmitted, pending, configured, codec,
                 reconnectTimers>>

\* The application calls sendReply(i, payload).
AppSendReply(i, payload) ==
  /\ LET r == SendReply(socket, i, payload) IN
       Outputs(<<>>, r.sent, r.fault,
               Last("sendReply", 0, NoFrame, i, "-", payload, 0))
  /\ UNCHANGED <<socket, readyState, unexpected, reconnectTimeout, pingTimeout,
                 reconnect, ignoreErrors, disconnectEmitted, pending, configured,
                 codec, reconnectTimers>>

\* The application calls sendError(i, new Error(message)).
AppSendError(i, message) ==
  /\ LET r == SendError(socket, i, message) IN
       Outputs(<<>>, r.sent, r.fault,
               Last("sendError", 0, NoFrame, i, message, Undefined, 0))
  /\ UNCHANGED <<socket, readyState, unexpected, reconnectTimeout, pingTimeout,
                 reconnect, ignoreErrors, disconnectEmitted, pending, configured,
                 codec, reconnectTimers>>

Next ==
  \/ AppConnect
  \/ ReconnectTimerFires
  \/ PingTimeoutFires
  \/ \E h \in Handles : OnOpen(h)
  \/ \E h \in Handles : OnClose(h)
  \/ \E h \in Handles : OnUnexpectedResponse(h)
  \/ \E h \in Handles : OnError(h)
  \/ \E h \in Handles : OnPing(h)
  \/ \E h \in Handles, f \in Frames : OnMessage(h, f)
  \/ \E i \in Ids, call \in ReplyCalls : AppReply(i, call)
  \/ \E i \in Ids : AppSendReply(i, Obj("x", "1"))
  \/ \E i \in Ids : AppSendError(i, "boom")

Spec == Init /\ [][Next]_vars

RecordedSpec == RecordedInit /\ [][Next]_vars

\* Node fires an armed timer; the transport and the application owe nothing.
FairSpec ==
  Spec /\ WF_vars(PingTimeoutFires) /\ WF_vars(ReconnectTimerFires)

\* The same fairness, for the Protocol constructed with the default options.
FairDefaultSpec ==
  /\ DefaultInit /\ [][Next]_vars
  /\ WF_vars(PingTimeoutFires) /\ WF_vars(ReconnectTimerFires)

\* ---------------------------------------------------------------- codec runs
\* The arguments encodeMessage is called with.
CodecTypes == {TypeChars[a] : a \in DOMAIN TypeChars}

CodecIds ==
  { <<"i", "1">>, <<"a", "-", "2">>, <<>>, <<"i", "&", "=">> }

CodecPayloads ==
  { JUndefined, JNull, JText(<<>>), JText(<<"a", "&", "b">>),
    JText(<<"1", "+", "1", "=", "2">>), JObj(<<"x">>, <<"1">>),
    JObj(<<"m", "s", "g">>, <<"5", "0", "%">>) }

CodecInit ==
  /\ Constructed /\ recording = FALSE
  /\ codec \in {CodecInput(type, id, payload) :
                  type \in CodecTypes, id \in CodecIds, payload \in CodecPayloads}

\* encodeMessage(type, id, payload) is called.
CodecEncode ==
  /\ codec.stage = "input"
  /\ codec' = [codec EXCEPT !.stage = "encoded",
                            !.wire = EncodeWire(codec.type, codec.id, codec.payload)]
  /\ UNCHANGED <<socket, readyState, unexpected, reconnectTimeout, pingTimeout,
                 reconnect, ignoreErrors, configured, disconnectEmitted, pending,
                 emitted, sent, fault, last, discSince, failedH, reconnectTimers,
                 established, recording, origin, stale>>

\* The text is handed to the decoder of processMessage.
CodecDecode ==
  /\ codec.stage = "encoded"
  /\ codec' = [codec EXCEPT !.stage = "decoded", !.decoded = DecodeWire(codec.wire)]
  /\ UNCHANGED <<socket, readyState, unexpected, reconnectTimeout, pingTimeout,
                 reconnect, ignoreErrors, configured, disconnectEmitted, pending,
                 emitted, sent, fault, last, discSince, failedH, reconnectTimers,
                 established, recording, origin, stale>>

CodecNext == CodecEncode \/ CodecDecode

CodecSpec == CodecInit /\ [][CodecNext]_vars

\* ---------------------------------------------------------------- claims
\* C1: in every reachable state at most one handle created by this Protocol is
\* not closed (connecting, open or closing), so no handle is created while an
\* earlier one is still not closed.
C1_AtMostOneLiveHandle == Cardinality(NotClosed(readyState)) <= 1

ReplyFrame(id, value) == [type |-> "reply", id |-> id, payload |-> JsonText(value)]
ErrorFrame(id, message) ==
  [type |-> "error", id |-> id, payload |-> JsonText(Obj("message", message))]

\* C2: a reply function called with a non-null error e transmits exactly one
\* frame, of type error, with the id of its fetch and payload {message: e.message},
\* and no reply frame.
C2_ErrorReplyTransmitsErrorFrame ==
  (last.op = "reply" /\ last.err # "null") =>
    /\ Len(sent) = 1
    /\ sent[1].frame = ErrorFrame(last.id, last.err)

DecryptFails(f) ==
  /\ f.type = "challenge" /\ f.id # undef
  /\ f.payload.kind = "json" /\ f.payload.val.t = "object"
  /\ ~(f.payload.val.k = "challenge" /\ DecryptOk(f.payload.val.v))

\* A challenge frame that reaches _handleChallenge and decrypts.
DecryptSucceeds(f) ==
  /\ f.type = "challenge" /\ f.id # undef
  /\ f.payload.kind = "json" /\ f.payload.val.t = "object"
  /\ f.payload.val.k = "challenge" /\ DecryptOk(f.payload.val.v)

\* C4: a challenge that fails to decrypt emits exactly one error event and
\* transmits nothing, and the later close event of the handle that delivered
\* it arms no reconnect timer.
C4_FailedChallenge ==
  /\ []((last.op = "message" /\ DecryptFails(last.frame)) =>
          (emitted = <<ErrorEv("decrypt")>> /\ sent = <<>>))
  /\ [][(last'.op = "close" /\ last'.h \in failedH) =>
          reconnectTimeout' = reconnectTimeout]_vars

\* Reconnect was enabled at construction, a challenge failed on a handle, that
\* handle has just closed and no reconnect timer is pending.
C4_Witness ==
  /\ last.op = "close" /\ last.h \in failedH
  /\ configured /\ ~reconnectTimeout

\* C5: a challenge with id i that decrypts to s transmits exactly one frame,
\* reply with id i and payload {response: s}, emits no event, and leaves the
\* reconnect option, the handle and both timers unchanged.
C5_ChallengeReply ==
  /\ []((last.op = "message" /\ DecryptSucceeds(last.frame)) =>
          /\ Len(sent) = 1
          /\ sent[1].frame =
                ReplyFrame(last.frame.id,
                           Obj("response", Decrypt(last.frame.payload.val.v)))
          /\ emitted = <<>>)
  /\ [][(last'.op = "message" /\ DecryptSucceeds(last'.frame)) =>
          UNCHANGED <<reconnect, socket, readyState, reconnectTimeout,
                      pingTimeout>>]_vars

\* A challenge decrypted and was answered while the liveness timer was armed.
C5_Witness ==
  /\ last.op = "message" /\ DecryptSucceeds(last.frame)
  /\ Len(sent) = 1
  /\ pingTimeout

\* The held handle is open, no ping arrived since it opened and no
\* disconnected event was emitted since.
OpenWithoutPing ==
  /\ socket # 0 /\ readyState[socket] = "OPEN"
  /\ ~pingTimeout
  /\ ~discSince

\* C6: when a connection opens and no ping arrives, the liveness window runs
\* out and a disconnected event is emitted (the episode does not stay open
\* without a ping for ever).
C6_NoPingLeadsToDisconnected == OpenWithoutPing ~> ~OpenWithoutPing

\* C7: disconnected is emitted once per episode: a step emits disconnected only
\* when a connected event was emitted since the previous disconnected event.
C7_DisconnectedOncePerEpisode ==
  [][(\E k \in 1..Len(emitted') : emitted'[k].ev = "disconnected") =>
      ~discSince]_vars

Closed(rs) == {h \in Handles : rs[h] = "CLOSED"}
HeldLive == socket # 0 /\ readyState[socket] \in Live

\* C8: with reconnect enabled, N closes lead to exactly N new handles, one per
\* close: every handle but the held one is closed, so no attempt overlaps an
\* earlier one; while the held handle is closed the reconnect timer its close
\* armed is pending and the next handle does not exist yet; once the timer has
\* run there is one handle more than there were closes; and a handle is
\* created only by the reconnect timer's expiry or by a connect() call of the
\* application, never by the close event itself.
C8_OneAttemptPerClose ==
  reconnect =>
    /\ Cardinality(NotClosed(readyState)) <= 1
    /\ Cardinality(Created(readyState)) =
         Cardinality(Closed(readyState)) + (IF HeldLive THEN 1 ELSE 0)
    /\ (Created(readyState) # {} /\ ~HeldLive) => reconnectTimeout
    /\ last.op = "close" => reconnectTimeout
    /\ last.born # 0 => last.op \in {"connect", "reconnectTimer"}

\* After two closes the reconnect timer has opened the third handle.
C8_Witness ==
  /\ reconnect
  /\ last.op = "reconnectTimer" /\ last.born = 3
  /\ Cardinality(Closed(readyState)) = 2

\* A frame the decoder drops: type, id or payload missing, a type other than
\* challenge, push and fetch, or a payload that is no JSON text.
Dropped(f) ==
  \/ f.type = undef \/ f.id = undef \/ f.payload.kind = "absent"
  \/ f.type \notin {"challenge", "push", "fetch"}
  \/ f.payload.kind # "json"

\* C9: a dropped frame emits no event, transmits no frame, and leaves the
\* handle, the reconnect option, the disconnect-emitted flag and both timers
\* unchanged.
C9_DroppedFrameHasNoEffect ==
  /\ []((last.op = "message" /\ Dropped(last.frame)) =>
          (emitted = <<>> /\ sent = <<>> /\ fault = "none"))
  /\ [][(last'.op = "message" /\ Dropped(last'.frame)) =>
          UNCHANGED <<socket, readyState, reconnect, disconnectEmitted,
                      reconnectTimeout, pingTimeout, pending>>]_vars

\* A frame was dropped while both timers were armed.
C9_Witness ==
  /\ last.op = "message" /\ Dropped(last.frame)
  /\ pingTimeout /\ reconnectTimeout

\* A push or fetch frame with type, id, plugin and a JSON payload.
WellFormed(f) ==
  /\ f.type \in {"push", "fetch"}
  /\ f.id # undef /\ f.plugin # undef
  /\ f.payload.kind = "json"

\* C10: a well-formed push or fetch frame emits exactly one event, of the
\* frame's type, with the frame's plugin and payload, and transmits nothing;
\* frames are transmitted only when the application calls a reply function,
\* sendReply or sendError, or in answer to a challenge.
C10_OneEventPerFrame ==
  /\ (last.op = "message" /\ WellFormed(last.frame)) =>
       /\ Len(emitted) = 1
       /\ emitted[1].ev = last.frame.type
       /\ emitted[1].plugin = last.frame.plugin
       /\ emitted[1].payload = last.frame.payload.val
       /\ sent = <<>>
  /\ sent # <<>> =>
       \/ last.op \in {"reply", "sendReply", "sendError"}
       \/ (last.op = "message" /\ last.frame.type = "challenge")

\* A well-formed fetch frame was dispatched.
C10_Witness ==
  /\ last.op = "message" /\ WellFormed(last.frame)
  /\ last.frame.type = "fetch"
  /\ Len(emitted) = 1

\* The id holds none of the characters the wire format reserves.
NoReserved(id) == \A k \in 1..Len(id) : id[k] \notin Reserved

\* C11 as stated: for every type (reply and error included), every id without
\* reserved characters and every JSON-serializable payload, decoding the text
\* encodeMessage(type, id, payload) returns yields {type, id, payload}.
C11_RoundTripAllTypes ==
  (codec.stage = "decoded" /\ NoReserved(codec.id) /\ codec.payload # JUndefined) =>
    codec.decoded = Message(codec.type, codec.id, codec.payload)

\* C11 amended: for the inbound types challenge, push and fetch, every id
\* without reserved characters and every JSON-serializable payload, decoding
\* the text encodeMessage(type, id, payload) returns yields {type, id, payload}
\* unchanged; for the outbound types reply and error the decoder yields
\* nothing (the frame is dropped).
C11_RoundTripInboundTypes ==
  (codec.stage = "decoded" /\ NoReserved(codec.id) /\ codec.payload # JUndefined) =>
    IF codec.type \in {TypeChars["challenge"], TypeChars["push"], TypeChars["fetch"]}
      THEN codec.decoded = Message(codec.type, codec.id, codec.payload)
      ELSE codec.decoded = Absent

\* A fetch message whose payload holds reserved characters went through the
\* encoder and the decoder and came back.
C11_Witness ==
  /\ codec.stage = "decoded"
  /\ codec.type = TypeChars["fetch"] /\ codec.id = <<"i", "1">>
  /\ codec.payload = JText(<<"a", "&", "b">>)
  /\ codec.decoded # Absent

\* C12: on a transport error event an error event is emitted if and only if
\* ignoreErrors is false, and the handler leaves the handle, the
\* disconnect-emitted flag and both timers unchanged (it schedules no
\* reconnect).
C12_ErrorHandler ==
  /\ [](last.op = "error" =>
          /\ (~ignoreErrors => emitted = <<ErrorEv("socket")>>)
          /\ (ignoreErrors => emitted = <<>>)
          /\ sent = <<>> /\ fault = "none")
  /\ [][last'.op = "error" =>
          UNCHANGED <<socket, readyState, disconnectEmitted, reconnectTimeout,
                      pingTimeout, reconnect>>]_vars

\* A transport error was passed on to the application while the handle was
\* open, the liveness timer armed and no reconnect scheduled.
C12_Witness ==
  /\ last.op = "error" /\ ~ignoreErrors
  /\ emitted = <<ErrorEv("socket")>>
  /\ socket # 0 /\ readyState[socket] = "OPEN"
  /\ pingTimeout /\ ~reconnectTimeout /\ reconnect

\* C13: once a connection has been established, no inbound frame and no call
\* of sendReply, sendError or a reply function throws or leaves a rejected
\* promise: emitted events are the only error channel.
C13_NoExceptionOnceEstablished ==
  (established /\ last.op \in {"message", "reply", "sendReply", "sendError"}) =>
    fault = "none"

\* C14: with reconnect enabled (no handshake failure has disabled it), under
\* fair timers every close of the held handle is eventually followed by the
\* creation of the next handle, however many handles closed before it.
C14_CloseLeadsToNewHandle ==
  \A h \in 1..(MaxHandles - 1) :
    (socket = h /\ readyState[h] = "CLOSED" /\ reconnect)
      ~> (readyState[h + 1] # "NONE")

\* The second handle closed without ever opening, and the reconnect timer then
\* created the third.
C14_Witness ==
  /\ reconnect /\ ~established
  /\ last.op = "reconnectTimer" /\ last.born = 3
  /\ readyState[1] = "CLOSED" /\ readyState[2] = "CLOSED"

\* C15: a handshake decryption failure is terminal: once it has disabled the
\* reconnect option (which the constructor had enabled), the option stays
\* false and no reconnect timer's expiry creates a handle, not even a timer
\* that was pending when the failure occurred.
C15_HandshakeFailureTerminal ==
  [][(configured /\ ~reconnect) =>
       /\ ~reconnect'
       /\ (last'.op = "reconnectTimer" => last'.born = 0)]_vars

\* C16: connect() called while a handle is held and not closed (by the
\* application or by the reconnect timer) requests that handle's close and
\* returns: it creates no handle, keeps the handle held and arms no timer. A
\* handle is created only when none is held or the held one is closed, and
\* with reconnect enabled the close of the held handle leaves a reconnect
\* timer pending, whose expiry calls connect().
C16_ConnectWhileLive ==
  /\ [][(last'.op \in {"connect", "reconnectTimer"}
          /\ socket # 0 /\ readyState[socket] # "CLOSED") =>
         /\ last'.born = 0
         /\ socket' = socket
         /\ readyState' = [readyState EXCEPT ![socket] = "CLOSING"]
         /\ reconnectTimers' <= reconnectTimers
         /\ (reconnectTimeout' => reconnectTimeout)
         /\ ~pingTimeout']_vars
  /\ [][last'.born # 0 => (socket = 0 \/ readyState[socket] = "CLOSED")]_vars
  /\ []((last.op = "close" /\ last.h = socket /\ reconnect) => reconnectTimeout)

\* The application called connect() on an established, held handle with no
\* reconnect timer pending: the handle is closing and no handle was created.
C16_Witness ==
  /\ last.op = "connect" /\ last.born = 0
  /\ socket # 0 /\ readyState[socket] = "CLOSING"
  /\ established /\ reconnect /\ ~reconnectTimeout

\* C17: at most one reconnect callback is scheduled in every reachable state,
\* and exactly one while _reconnectTimeout is set; a reconnect request (close,
\* unexpected-response, liveness expiry) made while the timer is pending
\* schedules nothing and leaves the pending timer as it is; each expiry
\* consumes the one timer and calls connect() once.
C17_SingleReconnectTimer ==
  /\ [](reconnectTimers <= 1 /\ (reconnectTimeout <=> reconnectTimers = 1))
  /\ [][(last'.op \in {"close", "unexpected-response", "pingTimeout"}
          /\ reconnectTimeout) =>
         (reconnectTimers' = reconnectTimers /\ reconnectTimeout')]_vars
  /\ [][last'.op = "reconnectTimer" =>
         (reconnectTimers' = reconnectTimers - 1 /\ ~reconnectTimeout')]_vars

\* The liveness timer expired while the held handle was already closed: the
\* close had armed the reconnect timer, and the expiry's request found it
\* pending.
C17_Witness ==
  /\ last.op = "pingTimeout" /\ reconnect
  /\ socket # 0 /\ readyState[socket] = "CLOSED"
  /\ reconnectTimers = 1

\* C18 (its safety part): a liveness expiry emits disconnected with the
\* synthetic reason, and when it found the held handle open with reconnect
\* enabled, the reconnect timer creates the next handle only after that stale
\* handle has reached the closed state.
C18_NewHandleAfterStaleClosed ==
  /\ [](last.op = "pingTimeout" => emitted = <<Disconnected("Ping timeout")>>)
  /\ [][(stale # 0 /\ last'.op = "reconnectTimer" /\ last'.born # 0) =>
         readyState[stale] = "CLOSED"]_vars

\* C19: no push or fetch event is emitted between a disconnected event and the
\* next connected event; frames that arrive on the still-open handle after a
\* liveness-timeout disconnected are not dispatched.
C19_NoDispatchWhileDisconnected ==
  (\E k \in 1..Len(emitted) : emitted[k].ev \in {"push", "fetch"}) => ~discSince

\* C20: a reply function transmits on the handle held when it is called, not
\* on the handle that delivered its fetch: with a handle held it hands one
\* frame to that handle, with no handle held it transmits nothing.
C20_ReplyUsesCurrentHandle ==
  last.op = "reply" =>
    /\ (socket # 0 => (Len(sent) = 1 /\ sent[1].h = socket))
    /\ (socket = 0 => sent = <<>>)

\* The handle that delivered the fetch has closed, a later handle is held, and
\* the reply function was called: its frame went to the later handle.
C20_Witness ==
  /\ last.op = "reply"
  /\ origin[last.id] # 0 /\ readyState[origin[last.id]] = "CLOSED"
  /\ socket # 0 /\ socket # origin[last.id]
  /\ Len(sent) = 1 /\ sent[1].h = socket

\* C21: connect() never cancels a pending reconnect timer. Called by the
\* application while the held handle is closed and the timer is pending, it
\* creates a new handle at once and the timer stays pending; when the timer
\* then expires while that handle is held and not closed, its connect()
\* requests the handle's close and creates nothing.
C21_ConnectKeepsReconnectTimer ==
  /\ [][last'.op = "connect" =>
         (reconnectTimers' = reconnectTimers
          /\ reconnectTimeout' = reconnectTimeout)]_vars
  /\ [][(last'.op = "connect" /\ reconnectTimeout
          /\ socket # 0 /\ readyState[socket] = "CLOSED") =>
         (last'.born # 0 /\ socket' = last'.born
          /\ readyState'[socket'] = "CONNECTING" /\ reconnectTimers' = 1)]_vars
  /\ [][(last'.op = "reconnectTimer"
          /\ socket # 0 /\ readyState[socket] # "CLOSED") =>
         (last'.born = 0 /\ socket' = socket
          /\ readyState'[socket] = "CLOSING")]_vars

\* The first handle closed without opening and armed the timer; the
\* application's connect() created the second handle, which neither opened
\* nor got an unexpected response; the timer expired and asked it to close.
C21_Witness ==
  /\ last.op = "reconnectTimer" /\ last.born = 0
  /\ ~established
  /\ socket = 2 /\ readyState[2] = "CLOSING" /\ 2 \notin unexpected
  /\ readyState[1] = "CLOSED"

\* A close or unexpected-response event.
Failure(op) == op \in {"close", "unexpected-response"}

\* C22: the disconnect-emitted flag is reset only by an open event. A close or
\* unexpected-response event emits disconnected exactly when the flag is not
\* set, and schedules a reconnect when enabled either way; so while no handle
\* has ever opened the flag stays set from the first failed attempt on, and
\* the later failed attempts emit no disconnected event.
C22_FlagResetOnlyByOpen ==
  /\ [][(disconnectEmitted /\ ~disconnectEmitted') => last'.op = "open"]_vars
  /\ [][Failure(last'.op) =>
         /\ disconnectEmitted'
         /\ (disconnectEmitted => emitted' = <<>>)
         /\ (~disconnectEmitted => emitted' = <<Disconnected(last'.op)>>)
         /\ (reconnect => (reconnectTimeout' /\ reconnectTimers' = 1))]_vars
  /\ []((~established /\ (Closed(readyState) # {} \/ unexpected # {})) =>
          disconnectEmitted)

\* The first handle closed without opening; so did the second, which emitted
\* no disconnected event and left a reconnect timer pending.
C22_Witness ==
  /\ last.op = "close" /\ last.h = 2 /\ ~established
  /\ readyState[1] = "CLOSED"
  /\ emitted = <<>>
  /\ reconnect /\ reconnectTimeout

====
